---- MODULE Spec2Model ----
(***************************************************************************)
(* Model of the quiz flow of static/js/app.js: the globals currentLesson   *)
(* and currentQuiz, the quiz DOM elements whose state gates the handlers,   *)
(* the requests in flight to /api/lesson/generate, /api/quiz/check,         *)
(* /api/quiz/generate, the reports posted to /api/quiz/save and their       *)
(* responses, and the clock read by startQuiz and finishQuiz; and of the    *)
(* image upload, the reading controls and the mark-complete button of the  *)
(* same page, of its chat with voice input, and of the sign-up form of the   *)
(* authentication page.                                                     *)
(***************************************************************************)
EXTENDS Integers, Sequences, FiniteSets, TLC

\* ---------------------------------------------------------------- bounds
MaxQuestions == 2   \* longest question list the content provider returns
NumOptions == 2     \* options of a question
MaxLesson == 1      \* lesson ids of the lessons generated in Spec are 1..MaxLesson
MaxLessonId == 2    \* lesson ids of the lessons generated in SpecLesson are 1..MaxLessonId
MaxPending == 1     \* most lesson requests, and most check requests, in flight
MaxPendingGen == 2  \* most /api/quiz/generate requests in flight
MaxGenerate == 2    \* most /api/quiz/generate requests issued in one run
MaxOverScore == 1   \* a score this far above questions.length is not submitted beyond
MaxTotal == 40      \* most questions of a quiz in SpecPct and SpecScript
MaxScriptLen == 2   \* longest quiz of SpecScript answered in every possible way
ScriptOptions == 3  \* options per question of those quizzes
MsPerTick == 500    \* milliseconds by which Date.now() advances in one step of the clock
MaxNow == 2000      \* Date.now() at which the clock of SpecTime stops

\* ------------------------------------------------------------ JS values
\* currentQuiz.selectedAnswer === undefined
Undefined == -1
\* Math.round(0 / 0 * 100)
NaN == -2
\* Math.round(k / 0 * 100), k > 0
Infinity == -3
\* an array slot that was never assigned
Hole == [selected |-> Undefined, correct |-> Undefined, isCorrect |-> FALSE]

\* imageInput.files is empty
NoFile == [type |-> "", size |-> 0]

\* file.size > 16 * 1024 * 1024 of handleImageFile
MaxImageBytes == 16 * 1024 * 1024

\* the files the user can pick or drop: file.type and file.size
Files == [type : {"image/png", "text/plain"}, size : {1, MaxImageBytes, MaxImageBytes + 1}]

\* at most this many /api/image/analyze requests are sent
MaxAnalyze == 2

\* at most this many restart timers of updateReadingSpeed are armed at a time
MaxTimers == 2

\* at most this many /api/progress/update requests are in flight
MaxMarkPending == 2

\* at most this many chat messages are sent
MaxMessages == 3

\* at most this many timers of onresult are armed at a time
MaxSendTimers == 1

\* what the user types or dictates: texts of up to MaxTextLen characters
MaxTextLen == 2

\* at most this many requests of the authentication page are in flight
MaxAuthPending == 2

\* at most this many /api/auth/signup requests are sent
MaxSignups == 2

\* names of up to MaxNameLen characters are typed into the signup form
MaxNameLen == 3

\* the signup form as loaded: empty fields, terms not agreed
EmptyForm == [name |-> <<>>, email |-> <<>>, password |-> <<>>, confirmPassword |-> <<>>,
              agreeTerms |-> FALSE]

Lessons == 1..MaxLesson

\* every lesson_id a request can carry
LessonIds == 1..MaxLessonId

\* a question as far as the handlers read it: options.length, correctAnswer
Question == [n : {NumOptions}, correctAnswer : 0..(NumOptions - 1)]

SeqsUpTo(S, k) == UNION {[1..m -> S] : m \in 0..k}

\* data.quiz.questions of a successful /api/quiz/generate response
QuestionSets == SeqsUpTo(Question, MaxQuestions)

\* ------------------------------------------- Math.round((score / n) * 100)
\* A JS Number is kept as [m, e]: the 53-bit significand as four limbs of 16
\* bits, lowest first (the top limb is 16..31), and the exponent of its lowest
\* bit: value = (m[1] + m[2]*Limb + m[3]*Limb^2 + m[4]*Limb^3) * 2^e.
Limb == 65536

\* s / n = (r / d) * 2^e with d <= r < 2d
RECURSIVE Norm(_, _, _)
Norm(r, d, e) ==
  IF r < d THEN Norm(2 * r, d, e - 1)
  ELSE IF r >= 2 * d THEN Norm(r, 2 * d, e + 1)
  ELSE [r |-> r, d |-> d, e |-> e]

\* the significand m rounded up by one unit in the last place
RoundUp(m, e) ==
  LET c0 == m[1] + 1
      c1 == m[2] + (c0 \div Limb)
      c2 == m[3] + (c1 \div Limb)
      c3 == m[4] + (c2 \div Limb)
  IN IF c3 = 32 THEN [m |-> <<0, 0, 0, 16>>, e |-> e + 1]
     ELSE [m |-> <<c0 % Limb, c1 % Limb, c2 % Limb, c3>>, e |-> e]

\* the double nearest to s / n (round to nearest, ties to even), s > 0, n > 0
FDiv(s, n) ==
  LET nm == Norm(s, n, 0)
      d == nm.d
      f0 == nm.r - d
      a3 == 16 + ((f0 * 16) \div d)
      f1 == (f0 * 16) % d
      a2 == (f1 * Limb) \div d
      f2 == (f1 * Limb) % d
      a1 == (f2 * Limb) \div d
      f3 == (f2 * Limb) % d
      a0 == (f3 * Limb) \div d
      f4 == (f3 * Limb) % d
      m == <<a0, a1, a2, a3>>
      e == nm.e - 52
  IN IF 2 * f4 > d \/ (2 * f4 = d /\ a0 % 2 = 1) THEN RoundUp(m, e) ELSE [m |-> m, e |-> e]

RECURSIVE BitLen(_)
BitLen(x) == IF x = 0 THEN 0 ELSE 1 + BitLen(x \div 2)

\* the double nearest to f * k for an integer k in 1..2047
FMul(f, k) ==
  LET t0 == f.m[1] * k
      t1 == f.m[2] * k + (t0 \div Limb)
      t2 == f.m[3] * k + (t1 \div Limb)
      t3 == f.m[4] * k + (t2 \div Limb)
      b0 == t0 % Limb
      b1 == t1 % Limb
      b2 == t2 % Limb
      d == BitLen(t3) - 5
      w == 2 ^ d
      up == Limb \div w
      low == b0 % w
      kept == << (b0 \div w) + (b1 % w) * up,
                 (b1 \div w) + (b2 % w) * up,
                 (b2 \div w) + (t3 % w) * up,
                 t3 \div w >>
  IN IF 2 * low > w \/ (2 * low = w /\ kept[1] % 2 = 1)
     THEN RoundUp(kept, f.e + d)
     ELSE [m |-> kept, e |-> f.e + d]

\* bit i (0..52) of the significand
Bit(m, i) == (m[(i \div 16) + 1] \div (2 ^ (i % 16))) % 2

\* the integer part of m * 2^e, summed from bit i downwards
RECURSIVE Whole(_, _, _)
Whole(m, e, i) ==
  IF i < 0 \/ i + e < 0 THEN 0
  ELSE Bit(m, i) * (2 ^ (i + e)) + Whole(m, e, i - 1)

\* Math.round(f) for 0 < f < 2^31: the nearest integer, a tie going up
MathRound(f) ==
  LET h == 0 - f.e - 1
  IN Whole(f.m, f.e, 52) + (IF h \in 0..52 THEN Bit(f.m, h) ELSE 0)

\* Math.round((score / n) * 100) of finishQuiz
percentage(score, n) ==
  IF n = 0 THEN (IF score = 0 THEN NaN ELSE Infinity)
  ELSE IF score = 0 THEN 0
  ELSE MathRound(FMul(FDiv(score, n), 100))

\* 100 * score / n rounded half-up in exact arithmetic
HalfUp(score, n) == (200 * score + n) \div (2 * n)

\* ---------------------------------------------------------------- state
VARIABLES
  currentLesson,         \* currentLesson.lesson_id, 0 for null
  quizId,                \* which object currentQuiz refers to, 0 for null
  questions,             \* currentQuiz.questions
  currentQuestionIndex,  \* currentQuiz.currentQuestionIndex
  userAnswers,           \* currentQuiz.userAnswers
  score,                 \* currentQuiz.score
  selectedAnswer,        \* currentQuiz.selectedAnswer
  quizAvailableHidden,   \* quizAvailable has class hidden
  quizQuestionHidden,    \* #quizQuestion has class hidden
  quizResultHidden,      \* quizResult has class hidden
  loadingHidden,         \* loadingOverlay has class hidden
  submitBtnDisabled,     \* submitAnswerBtn.disabled
  nextBtnHidden,         \* nextQuestionBtn has class hidden
  optionElems,           \* number of .option-item elements in questionOptions
  currentQuestionText,   \* currentQuestion.textContent
  finalPercentage,       \* finalPercentage.textContent, Undefined before a finish
  lessonReqs,            \* /api/lesson/generate requests in flight
  checkReqs,             \* /api/quiz/check requests in flight, per lesson_id
  genReqs,               \* /api/quiz/generate requests in flight, per lesson_id
  genIssued,             \* /api/quiz/generate requests sent so far
  saved,                 \* the bodies posted to /api/quiz/save, in order
  saveReqs,              \* /api/quiz/save requests in flight
  saveErrors,            \* console.error calls of saveQuizResults
  now,                   \* Date.now()
  quizStartTime,         \* quizStartTime, 0 for null (Date.now() - null is Date.now())
  startedAt,             \* Date.now() when currentQuiz was assigned (history)
  quizLesson,            \* lesson_id of the request whose response is currentQuiz (history)
  reselected,            \* a click replaced the selection made on the question shown (history)
  inputFile,             \* imageInput.files[0], NoFile for none
  previewFile,           \* the file shown in previewImg, NoFile while imagePreview is hidden
  reading,               \* the files a FileReader is reading
  analyzeReqs,           \* /api/image/analyze requests in flight
  uploaded,              \* the files posted to /api/image/analyze, in order
  noImageToast,          \* the toast 'Please select an image first' was shown (history)
  speaking,              \* speechSynthesis.speaking: an utterance was handed to speak() and
                         \* has neither ended nor been cancelled
  paused,                \* speechSynthesis.paused
  utterance,             \* currentUtterance is not null
  startPending,          \* the start event of the utterance is still to be delivered
  endPending,            \* the end event of a cancelled utterance is still to be delivered
  timers,                \* armed restart timers of updateReadingSpeed
  readBtnHidden,         \* readAloudBtn has class hidden; the stop and pause buttons have not
  stopRequested,         \* stopReading ran and startReading was not clicked since (history)
  markBtnDisabled,       \* markCompleteBtn.disabled
  markReqs,              \* /api/progress/update requests in flight, per lesson_id
  completed,             \* the lessons whose completion was acknowledged (history)
  isListening,           \* the global isListening
  recState,              \* the recogniser: "idle", "starting", "listening", "stopping", "ending"
  invalidStart,          \* start() was called on a recogniser that was not idle (history)
  sendTimers,            \* armed timers of onresult that call sendChatMessage
  chatInput,             \* chatInput.value, a sequence of characters
  chatLog,               \* the children of chatMessages, in order
  chatSent,              \* the number of /api/chat requests sent
  chatReqs,              \* the /api/chat requests in flight, by number
  signupForm,            \* the fields of signupForm and the agreeTerms checkbox
  authLoadingHidden,     \* loadingOverlay of the authentication page has class hidden
  signupReqs,            \* /api/auth/signup requests in flight
  signupSent,            \* the number of requests sent to /api/auth/signup
  otherAuthReqs          \* /api/auth/login and /api/auth/guest requests in flight

quizVars == <<quizId, questions, currentQuestionIndex, userAnswers, score, selectedAnswer,
              quizLesson>>
domVars == <<quizAvailableHidden, quizQuestionHidden, quizResultHidden, loadingHidden,
             submitBtnDisabled, nextBtnHidden, optionElems, currentQuestionText, finalPercentage>>
netVars == <<lessonReqs, checkReqs, genReqs, genIssued, saved, saveReqs, saveErrors>>
timeVars == <<now, quizStartTime, startedAt>>
imageVars == <<inputFile, previewFile, reading, analyzeReqs, uploaded, noImageToast>>
speechVars == <<speaking, paused, utterance, startPending, endPending, timers, readBtnHidden,
                stopRequested>>
markVars == <<markBtnDisabled, markReqs, completed>>
voiceVars == <<isListening, recState, invalidStart, sendTimers>>
chatVars == <<chatInput, chatLog, chatSent, chatReqs>>
authVars == <<signupForm, authLoadingHidden, signupReqs, signupSent, otherAuthReqs>>
pageVars == <<imageVars, speechVars, markVars, voiceVars, chatVars, authVars>>
vars == <<currentLesson, quizVars, reselected, domVars, netVars, timeVars, pageVars>>

\* the image tab, the reading controls and the mark-complete button as loaded
PageAsLoaded ==
  /\ inputFile = NoFile
  /\ previewFile = NoFile
  /\ reading = {}
  /\ analyzeReqs = 0
  /\ uploaded = <<>>
  /\ noImageToast = FALSE
  /\ speaking = FALSE
  /\ paused = FALSE
  /\ utterance = FALSE
  /\ startPending = FALSE
  /\ endPending = FALSE
  /\ timers = 0
  /\ readBtnHidden = FALSE
  /\ stopRequested = FALSE
  /\ markBtnDisabled = FALSE
  /\ markReqs = [l \in LessonIds |-> 0]
  /\ completed = {}
  /\ isListening = FALSE
  /\ recState = "idle"
  /\ invalidStart = FALSE
  /\ sendTimers = 0
  /\ chatInput = <<>>
  /\ chatLog = <<>>
  /\ chatSent = 0
  /\ chatReqs = {}
  /\ signupForm = EmptyForm
  /\ authLoadingHidden = TRUE
  /\ signupReqs = 0
  /\ signupSent = 0
  /\ otherAuthReqs = 0

\* The page as loaded: no lesson, no quiz, nothing in flight; the quiz
\* elements as displayQuestion resets them (submit disabled, next hidden) and
\* as startQuiz leaves them (result hidden), the quiz panel not yet shown.
Init ==
  /\ currentLesson = 0
  /\ quizId = 0
  /\ questions = <<>>
  /\ currentQuestionIndex = 0
  /\ userAnswers = <<>>
  /\ score = 0
  /\ selectedAnswer = Undefined
  /\ quizAvailableHidden = TRUE
  /\ quizQuestionHidden = FALSE
  /\ quizResultHidden = TRUE
  /\ loadingHidden = TRUE
  /\ submitBtnDisabled = TRUE
  /\ nextBtnHidden = TRUE
  /\ optionElems = 0
  /\ currentQuestionText = 0
  /\ finalPercentage = Undefined
  /\ lessonReqs = 0
  /\ checkReqs = [l \in LessonIds |-> 0]
  /\ genReqs = [l \in LessonIds |-> 0]
  /\ genIssued = 0
  /\ saved = <<>>
  /\ saveReqs = 0
  /\ saveErrors = 0
  /\ now = 0
  /\ quizStartTime = 0
  /\ startedAt = 0
  /\ quizLesson = 0
  /\ reselected = FALSE
  /\ PageAsLoaded

\* ------------------------------------------------------------- helpers
RECURSIVE Sum(_, _)
Sum(f, S) == IF S = {} THEN 0 ELSE LET x == CHOOSE y \in S : TRUE IN f[x] + Sum(f, S \ {x})

Pending(reqs) == Sum(reqs, LessonIds)

\* arr.push(v) in the place of arr[i] = v
ArrayPush(arr, i, v) == Append(arr, v)

\* arr[i] = v on a JS array, i counted from 0: slots skipped over stay holes
RECURSIVE ArraySet(_, _, _)
ArraySet(arr, i, v) ==
  IF i < Len(arr) THEN [arr EXCEPT ![i + 1] = v]
  ELSE IF i = Len(arr) THEN Append(arr, v)
  ELSE ArraySet(Append(arr, Hole), i, v)

\* An element with class hidden, or inside one, receives no click, and a
\* disabled button dispatches none.  #quizQuestion is the question interface
\* ("Hide question interface and show results", finishQuiz): the options, the
\* submit and the next button; quizResult holds the retake button.
\* the .option-item elements, the submit and the next button can be clicked
QuestionShown == ~quizAvailableHidden /\ ~quizQuestionHidden

\* the retake button can be clicked
ResultShown == ~quizAvailableHidden /\ ~quizResultHidden

\* ------------------------------------------------- generateLesson
generateLesson ==
  /\ lessonReqs < MaxPending
  /\ lessonReqs' = lessonReqs + 1
  /\ loadingHidden' = FALSE
  /\ UNCHANGED <<currentLesson, quizVars, quizAvailableHidden, quizQuestionHidden, quizResultHidden,
                 submitBtnDisabled, nextBtnHidden, optionElems, currentQuestionText, finalPercentage,
                 checkReqs, genReqs, genIssued, saved, saveReqs, saveErrors, timeVars>>
  /\ UNCHANGED <<reselected, pageVars>>

\* .then of generateLesson: data.success with data.lesson_id = l, or an error
generateLessonResponse(l, success) ==
  /\ lessonReqs > 0
  /\ lessonReqs' = lessonReqs - 1
  /\ loadingHidden' = TRUE
  /\ currentLesson' = IF success THEN l ELSE currentLesson
  /\ UNCHANGED <<quizVars, quizAvailableHidden, quizQuestionHidden, quizResultHidden,
                 submitBtnDisabled, nextBtnHidden, optionElems, currentQuestionText, finalPercentage,
                 checkReqs, genReqs, genIssued, saved, saveReqs, saveErrors, timeVars>>
  /\ UNCHANGED <<reselected, pageVars>>

\* ------------------------------------------------- startQuiz, request
\* startQuiz can send its request within the bounds of the model
CanStartQuiz == currentLesson # 0 => (Pending(genReqs) < MaxPendingGen /\ genIssued < MaxGenerate)

\* startQuiz up to the fetch: constrains loadingHidden, quizStartTime,
\* genReqs, genIssued
startQuiz ==
  IF currentLesson = 0
  THEN UNCHANGED <<loadingHidden, quizStartTime, genReqs, genIssued>>
  ELSE /\ loadingHidden' = FALSE
       /\ quizStartTime' = now
       /\ genReqs' = [genReqs EXCEPT ![currentLesson] = @ + 1]
       /\ genIssued' = genIssued + 1

\* click on retakeQuizBtn
retakeQuiz ==
  /\ ResultShown
  /\ CanStartQuiz
  /\ startQuiz
  /\ UNCHANGED <<currentLesson, quizVars, quizAvailableHidden, quizQuestionHidden, quizResultHidden,
                 submitBtnDisabled, nextBtnHidden, optionElems, currentQuestionText, finalPercentage,
                 lessonReqs, checkReqs, saved, saveReqs, saveErrors, now, startedAt>>
  /\ UNCHANGED <<reselected, pageVars>>

\* ------------------------------------------------- checkQuizAvailability
\* click on the quiz tab
checkQuizAvailability ==
  /\ IF currentLesson # 0
     THEN /\ Pending(checkReqs) < MaxPending
          /\ checkReqs' = [checkReqs EXCEPT ![currentLesson] = @ + 1]
          /\ UNCHANGED quizAvailableHidden
     ELSE /\ quizAvailableHidden' = TRUE
          /\ UNCHANGED checkReqs
  /\ UNCHANGED <<currentLesson, quizVars, quizQuestionHidden, quizResultHidden, loadingHidden,
                 submitBtnDisabled, nextBtnHidden, optionElems, currentQuestionText, finalPercentage,
                 lessonReqs, genReqs, genIssued, saved, saveReqs, saveErrors, timeVars>>
  /\ UNCHANGED <<reselected, pageVars>>

\* .then / .catch of checkQuizAvailability for the request made for lesson l
checkQuizResponse(l, available) ==
  /\ checkReqs[l] > 0
  /\ checkReqs' = [checkReqs EXCEPT ![l] = @ - 1]
  /\ IF available
     THEN /\ quizAvailableHidden' = FALSE
          /\ IF quizId = 0
             THEN CanStartQuiz /\ startQuiz
             ELSE UNCHANGED <<loadingHidden, quizStartTime, genReqs, genIssued>>
     ELSE /\ quizAvailableHidden' = TRUE
          /\ UNCHANGED <<loadingHidden, quizStartTime, genReqs, genIssued>>
  /\ UNCHANGED <<currentLesson, quizVars, quizQuestionHidden, quizResultHidden,
                 submitBtnDisabled, nextBtnHidden, optionElems, currentQuestionText, finalPercentage,
                 lessonReqs, saved, saveReqs, saveErrors, now, startedAt>>
  /\ UNCHANGED <<reselected, pageVars>>

\* ------------------------------------------------- displayQuestion
\* displayQuestion that does not hide the next button
displayQuestionKeepsNext(qs, i) ==
  /\ currentQuestionText' = i + 1
  /\ IF i < Len(qs)
     THEN /\ optionElems' = qs[i + 1].n
          /\ submitBtnDisabled' = TRUE
          /\ UNCHANGED nextBtnHidden
     ELSE UNCHANGED <<optionElems, submitBtnDisabled, nextBtnHidden>>

\* displayQuestion for the quiz with questions qs at index i: the number is
\* written first; question.question of a missing question throws before the
\* options are rebuilt and the buttons reset
displayQuestion(qs, i) ==
  /\ currentQuestionText' = i + 1
  /\ IF i < Len(qs)
     THEN /\ optionElems' = qs[i + 1].n
          /\ submitBtnDisabled' = TRUE
          /\ nextBtnHidden' = TRUE
     ELSE UNCHANGED <<optionElems, submitBtnDisabled, nextBtnHidden>>

\* ------------------------------------------------- startQuiz, response
\* the object of the k-th response is quiz k
NewQuizId == genIssued - Pending(genReqs) + 1

\* a response handler that installs the quiz only when no question of a
\* session is on screen
startQuizResponseUnlessAnswering(l, success, qs) ==
  /\ genReqs[l] > 0
  /\ genReqs' = [genReqs EXCEPT ![l] = @ - 1]
  /\ loadingHidden' = TRUE
  /\ IF success /\ (quizId = 0 \/ currentQuestionIndex >= Len(questions))
     THEN /\ quizId' = NewQuizId
          /\ questions' = qs
          /\ currentQuestionIndex' = 0
          /\ userAnswers' = <<>>
          /\ score' = 0
          /\ selectedAnswer' = Undefined
          /\ quizResultHidden' = TRUE
          /\ quizQuestionHidden' = FALSE
          /\ displayQuestion(qs, 0)
          /\ startedAt' = now
          /\ quizLesson' = l
          /\ reselected' = FALSE
     ELSE UNCHANGED <<quizVars, quizResultHidden, quizQuestionHidden, optionElems,
                      submitBtnDisabled, nextBtnHidden, currentQuestionText, startedAt,
                      reselected>>
  /\ UNCHANGED <<currentLesson, quizAvailableHidden, finalPercentage,
                 lessonReqs, checkReqs, genIssued, saved, saveReqs, saveErrors,
                 now, quizStartTime>>
  /\ UNCHANGED pageVars

\* .then / .catch of startQuiz for the request made for lesson l:
\* data.success with data.quiz.questions = qs, or an error
startQuizResponse(l, success, qs) ==
  /\ genReqs[l] > 0
  /\ genReqs' = [genReqs EXCEPT ![l] = @ - 1]
  /\ loadingHidden' = TRUE
  /\ IF success
     THEN /\ quizId' = NewQuizId
          /\ questions' = qs
          /\ currentQuestionIndex' = 0
          /\ userAnswers' = <<>>
          /\ score' = 0
          /\ selectedAnswer' = Undefined
          /\ quizResultHidden' = TRUE
          /\ quizQuestionHidden' = FALSE
          /\ displayQuestion(qs, 0)
          /\ startedAt' = now
          /\ quizLesson' = l
          /\ reselected' = FALSE
     ELSE UNCHANGED <<quizVars, quizResultHidden, quizQuestionHidden, optionElems,
                      submitBtnDisabled, nextBtnHidden, currentQuestionText, startedAt,
                      reselected>>
  /\ UNCHANGED <<currentLesson, quizAvailableHidden, finalPercentage,
                 lessonReqs, checkReqs, genIssued, saved, saveReqs, saveErrors,
                 now, quizStartTime>>
  /\ UNCHANGED pageVars

\* ------------------------------------------------- selectOption
\* document.querySelector(`[data-option-index="${i}"]`) finds an element
optionFound(i, elems) == i < elems

\* a listener that stores an index only while no selection is stored
selectOptionKeepsFirst(i) ==
  /\ QuestionShown
  /\ IF optionFound(i, optionElems) /\ quizId # 0
     THEN /\ submitBtnDisabled' = FALSE
          /\ selectedAnswer' = IF selectedAnswer = Undefined THEN i ELSE selectedAnswer
          /\ reselected' = (reselected \/ (~submitBtnDisabled /\ selectedAnswer \notin {Undefined, i}))
     ELSE UNCHANGED <<submitBtnDisabled, selectedAnswer, reselected>>
  /\ UNCHANGED <<currentLesson, quizId, questions, currentQuestionIndex, userAnswers, score, quizLesson,
                 quizAvailableHidden, quizQuestionHidden, quizResultHidden, loadingHidden,
                 nextBtnHidden, optionElems, currentQuestionText, finalPercentage, netVars,
                 timeVars>>
  /\ UNCHANGED pageVars

\* selectOption(i): the click listener of option i, or a call with any index
selectOption(i) ==
  /\ QuestionShown
  /\ IF optionFound(i, optionElems) /\ quizId # 0
     THEN /\ submitBtnDisabled' = FALSE
          /\ selectedAnswer' = i
          /\ reselected' = (reselected \/ (~submitBtnDisabled /\ selectedAnswer \notin {Undefined, i}))
     ELSE UNCHANGED <<submitBtnDisabled, selectedAnswer, reselected>>
  /\ UNCHANGED <<currentLesson, quizId, questions, currentQuestionIndex, userAnswers, score, quizLesson,
                 quizAvailableHidden, quizQuestionHidden, quizResultHidden, loadingHidden,
                 nextBtnHidden, optionElems, currentQuestionText, finalPercentage, netVars,
                 timeVars>>
  /\ UNCHANGED pageVars

\* ------------------------------------------------- submitQuizAnswer
isCorrectOf(selected, question) == selected = question.correctAnswer

AnswerRecord(selected, question) ==
  [selected |-> selected, correct |-> question.correctAnswer,
   isCorrect |-> isCorrectOf(selected, question)]

scoreAfter(s, isCorrect) == IF isCorrect THEN s + 1 ELSE s

\* the function without its test of currentQuiz.selectedAnswer: an undefined
\* selection is recorded like any other
submitQuizAnswerUnguarded ==
  /\ score < Len(questions) + MaxOverScore
  /\ IF quizId = 0 \/ currentQuestionIndex >= Len(questions)
     THEN UNCHANGED <<userAnswers, score, submitBtnDisabled, nextBtnHidden, selectedAnswer>>
     ELSE LET question == questions[currentQuestionIndex + 1]
          IN /\ userAnswers' = ArraySet(userAnswers, currentQuestionIndex,
                                        AnswerRecord(selectedAnswer, question))
             /\ score' = scoreAfter(score, isCorrectOf(selectedAnswer, question))
             /\ submitBtnDisabled' = TRUE
             /\ nextBtnHidden' = FALSE
             /\ selectedAnswer' = Undefined
  /\ UNCHANGED <<currentLesson, quizId, questions, currentQuestionIndex, quizLesson,
                 quizAvailableHidden, quizQuestionHidden, quizResultHidden, loadingHidden,
                 optionElems, currentQuestionText, finalPercentage, netVars, timeVars>>
  /\ UNCHANGED <<reselected, pageVars>>

\* the function, whoever calls it: currentQuiz.selectedAnswer of null and
\* question.correctAnswer of a missing question throw, an undefined selection
\* returns
submitQuizAnswerCall ==
  /\ score < Len(questions) + MaxOverScore
  /\ IF quizId = 0 \/ selectedAnswer = Undefined \/ currentQuestionIndex >= Len(questions)
     THEN UNCHANGED <<userAnswers, score, submitBtnDisabled, nextBtnHidden, selectedAnswer>>
     ELSE LET question == questions[currentQuestionIndex + 1]
          IN /\ userAnswers' = ArraySet(userAnswers, currentQuestionIndex,
                                        AnswerRecord(selectedAnswer, question))
             /\ score' = scoreAfter(score, isCorrectOf(selectedAnswer, question))
             /\ submitBtnDisabled' = TRUE
             /\ nextBtnHidden' = FALSE
             /\ selectedAnswer' = Undefined
  /\ UNCHANGED <<currentLesson, quizId, questions, currentQuestionIndex, quizLesson,
                 quizAvailableHidden, quizQuestionHidden, quizResultHidden, loadingHidden,
                 optionElems, currentQuestionText, finalPercentage, netVars, timeVars>>
  /\ UNCHANGED <<reselected, pageVars>>

\* click on submitAnswerBtn
submitQuizAnswer ==
  /\ QuestionShown
  /\ ~submitBtnDisabled
  /\ submitQuizAnswerCall

\* ------------------------------------------------- finishQuiz
\* Math.floor((Date.now() - quizStartTime) / 1000)
quizDuration == (now - quizStartTime) \div 1000

\* the body saveQuizResults posts for the current quiz
Report(pct, duration) ==
  [quiz |-> quizId, lesson_id |-> currentLesson, score |-> pct,
   total_questions |-> Len(questions), correct_answers |-> score,
   time_taken |-> duration, answers |-> userAnswers]

\* saveQuizResults up to the fetch
saveQuizResults(pct, duration) ==
  IF currentLesson = 0
  THEN UNCHANGED <<saved, saveReqs>>
  ELSE /\ saved' = Append(saved, Report(pct, duration))
       /\ saveReqs' = saveReqs + 1

\* a response handler that takes the result off the screen again when the
\* report was not saved
saveQuizResponseRollsBack(success) ==
  /\ saveReqs > 0
  /\ saveReqs' = saveReqs - 1
  /\ saveErrors' = IF success THEN saveErrors ELSE saveErrors + 1
  /\ quizResultHidden' = IF success THEN quizResultHidden ELSE TRUE
  /\ UNCHANGED <<currentLesson, quizVars, quizAvailableHidden, quizQuestionHidden, loadingHidden,
                 submitBtnDisabled, nextBtnHidden, optionElems, currentQuestionText, finalPercentage,
                 lessonReqs, checkReqs, genReqs, genIssued, saved, timeVars>>
  /\ UNCHANGED <<reselected, pageVars>>

\* .then / .catch of saveQuizResults: data.success, or data.error or a
\* rejected fetch, which are logged with console.error
saveQuizResponse(success) ==
  /\ saveReqs > 0
  /\ saveReqs' = saveReqs - 1
  /\ saveErrors' = IF success THEN saveErrors ELSE saveErrors + 1
  /\ UNCHANGED <<currentLesson, quizVars, domVars, lessonReqs, checkReqs, genReqs, genIssued,
                 saved, timeVars>>
  /\ UNCHANGED <<reselected, pageVars>>

\* finishQuiz that leaves the question interface on screen
finishQuizKeepsQuestion ==
  LET pct == percentage(score, Len(questions))
  IN /\ UNCHANGED quizQuestionHidden
     /\ quizResultHidden' = FALSE
     /\ finalPercentage' = pct
     /\ saveQuizResults(pct, quizDuration)

finishQuiz ==
  LET pct == percentage(score, Len(questions))
  IN /\ quizQuestionHidden' = TRUE
     /\ quizResultHidden' = FALSE
     /\ finalPercentage' = pct
     /\ saveQuizResults(pct, quizDuration)

\* ------------------------------------------------- nextQuizQuestion
\* the index after the increment still names a question
hasQuestion(i, len) == i < len

\* click on nextQuestionBtn
nextQuizQuestion ==
  /\ QuestionShown
  /\ ~nextBtnHidden
  /\ quizId # 0
  /\ currentQuestionIndex' = currentQuestionIndex + 1
  /\ reselected' = FALSE
  /\ IF hasQuestion(currentQuestionIndex + 1, Len(questions))
     THEN /\ displayQuestion(questions, currentQuestionIndex + 1)
          /\ UNCHANGED <<quizQuestionHidden, quizResultHidden, finalPercentage, saved, saveReqs>>
     ELSE /\ finishQuiz
          /\ UNCHANGED <<optionElems, submitBtnDisabled, nextBtnHidden, currentQuestionText>>
  /\ UNCHANGED <<currentLesson, quizId, questions, userAnswers, score, selectedAnswer, quizLesson,
                 quizAvailableHidden, loadingHidden, lessonReqs, checkReqs, genReqs, genIssued,
                 saveErrors, timeVars>>
  /\ UNCHANGED pageVars

\* ------------------------------------------------- specification
Next ==
  \/ generateLesson
  \/ \E l \in Lessons, success \in BOOLEAN : generateLessonResponse(l, success)
  \/ checkQuizAvailability
  \/ \E l \in Lessons, available \in BOOLEAN : checkQuizResponse(l, available)
  \/ retakeQuiz
  \/ \E l \in Lessons, qs \in QuestionSets : startQuizResponse(l, TRUE, qs)
  \/ \E l \in Lessons : startQuizResponse(l, FALSE, <<>>)
  \/ \E i \in 0..NumOptions : selectOption(i)
  \/ submitQuizAnswer
  \/ nextQuizQuestion
  \/ \E success \in BOOLEAN : saveQuizResponse(success)

Spec == Init /\ [][Next]_vars

\* ------------------------------------------------- states of a session
\* the current question has an answer record: it was submitted and the
\* session has not advanced past it
Revealed ==
  /\ quizId # 0
  /\ currentQuestionIndex < Len(questions)
  /\ currentQuestionIndex < Len(userAnswers)
  /\ userAnswers[currentQuestionIndex + 1] # Hole

\* the session has advanced past its last question
Finished ==
  /\ quizId # 0
  /\ currentQuestionIndex > 0
  /\ currentQuestionIndex >= Len(questions)

\* i is an option index of the current question
ValidOption(i) ==
  /\ quizId # 0
  /\ currentQuestionIndex < Len(questions)
  /\ i \in 0..(questions[currentQuestionIndex + 1].n - 1)

CorrectCount(answers) == Cardinality({i \in 1..Len(answers) : answers[i].isCorrect})

ReportsOf(q) == {i \in 1..Len(saved) : saved[i].quiz = q}

\* ------------------------------------------------- claims
\* C1: once submitQuizAnswer has recorded an answer for the current question,
\* a further submitQuizAnswer before nextQuizQuestion changes neither score
\* nor userAnswers.
C1_SecondSubmitRejected ==
  [][(Revealed /\ submitQuizAnswer) => UNCHANGED <<score, userAnswers>>]_vars

\* C2: in every reachable state score equals the number of entries of
\* userAnswers whose isCorrect is true.
C2_ScoreIsCorrectCount == score = CorrectCount(userAnswers)

\* C3: with an active session, 0 <= currentQuestionIndex <= questions.length.
C3_IndexInRange ==
  quizId # 0 => (0 <= currentQuestionIndex /\ currentQuestionIndex <= Len(questions))

\* C4: a nextQuizQuestion outside the AnswerRevealed state leaves
\* currentQuestionIndex, score and userAnswers unchanged.
C4_AdvanceOnlyWhenRevealed ==
  [][(~Revealed /\ nextQuizQuestion) => UNCHANGED <<currentQuestionIndex, score, userAnswers>>]_vars

\* C5: a session has a report posted to /api/quiz/save exactly when it has
\* advanced past its last question, and never more than one.
C5_OneReportPerSession ==
  /\ \A i, j \in 1..Len(saved) : saved[i].quiz = saved[j].quiz => i = j
  /\ \A i \in 1..Len(saved) : saved[i].quiz \in 1..quizId
  /\ quizId # 0 => (Finished <=> ReportsOf(quizId) # {})

\* C5 witness: two sessions have finished and each has posted its one report
C5_Witness ==
  /\ Finished
  /\ Len(saved) = 2
  /\ saved[1].quiz # saved[2].quiz
  /\ saved[2].quiz = quizId

\* C6: a successful response with an empty question list installs no session
\* and displays no question.
C6_EmptyListRejected ==
  [][(\E l \in Lessons : startQuizResponse(l, TRUE, <<>>))
       => UNCHANGED <<quizVars, currentQuestionText>>]_vars

\* C8: every posted report has an integer percentage in 0..100 and
\* correct_answers <= total_questions.
C8_ReportInRange ==
  \A i \in 1..Len(saved) :
    /\ saved[i].score \in 0..100
    /\ saved[i].correct_answers <= saved[i].total_questions

\* C10: selectOption with an index that is no option index of the current
\* question leaves the session unchanged.
C10_BadIndexRejected ==
  [][\A i \in 0..NumOptions :
       (~ValidOption(i) /\ selectOption(i)) => UNCHANGED quizVars]_vars

\* C12 as stated: once the current question has been submitted and before
\* the session advances, userAnswers.length equals currentQuestionIndex.
C12_RecordsEqualIndex == Revealed => Len(userAnswers) = currentQuestionIndex

\* C12 as the code has it: while a question is current, userAnswers.length is
\* currentQuestionIndex before its submission and currentQuestionIndex + 1
\* from its submission until the session advances.
C12_RecordsUpToCurrent ==
  (quizId # 0 /\ currentQuestionIndex < Len(questions)) =>
    Len(userAnswers) = (IF Revealed THEN currentQuestionIndex + 1 ELSE currentQuestionIndex)

\* C12 witness: the second question has been submitted, the session has not
\* advanced
C12_Witness ==
  /\ Revealed
  /\ currentQuestionIndex = 1
  /\ Len(userAnswers) = 2
  /\ ~nextBtnHidden

\* answers has one record for each of the n questions and no empty slot
OneRecordEach(answers, n) ==
  /\ Len(answers) = n
  /\ \A i \in 1..Len(answers) : answers[i] # Hole

\* C13: a session that has advanced past its last question has one answer
\* record for every question, without gaps, and every posted report carries
\* as many answer records as its total_questions.
C13_NoGapsAtFinish ==
  /\ Finished => OneRecordEach(userAnswers, Len(questions))
  /\ \A i \in 1..Len(saved) : OneRecordEach(saved[i].answers, saved[i].total_questions)

\* C13 witness: a quiz of two questions has finished and posted its report
C13_Witness ==
  /\ Finished
  /\ Len(questions) = 2
  /\ \E i \in ReportsOf(quizId) : Len(saved[i].answers) = 2

\* C14: once userAnswers[i] has been written, no selectOption,
\* submitQuizAnswer or nextQuizQuestion on the same session changes it.
C14_RecordImmutable ==
  [][((\E i \in 0..NumOptions : selectOption(i)) \/ submitQuizAnswer \/ nextQuizQuestion) =>
       \A k \in 1..Len(userAnswers) :
         userAnswers[k] # Hole => (k <= Len(userAnswers') /\ userAnswers'[k] = userAnswers[k])]_vars

\* a step that shows a question: displayQuestion run to its end
ShowsQuestion ==
  \/ \E l \in LessonIds, qs \in QuestionSets \ {<<>>} : startQuizResponse(l, TRUE, qs)
  \/ nextQuizQuestion /\ hasQuestion(currentQuestionIndex + 1, Len(questions))

\* a step of submitQuizAnswer that records an answer
RecordsAnswer == submitQuizAnswer /\ userAnswers' # userAnswers

\* C15: a stored selection is an option index of the question at
\* currentQuestionIndex, and no selection is stored right after a submission
\* and right after a question is shown.
C15_SelectionValid ==
  /\ [](selectedAnswer # Undefined => ValidOption(selectedAnswer))
  /\ [][RecordsAnswer => selectedAnswer' = Undefined]_vars
  /\ [][ShowsQuestion => selectedAnswer' = Undefined]_vars

\* C16: a successful response with a non-empty question list installs, in
\* whatever state it arrives, a new session with currentQuestionIndex 0,
\* score 0, no answer records and no selection.
C16_StartResets ==
  [][\A l \in LessonIds, qs \in QuestionSets \ {<<>>} :
       startQuizResponse(l, TRUE, qs) =>
         /\ quizId' # quizId
         /\ questions' = qs
         /\ currentQuestionIndex' = 0
         /\ score' = 0
         /\ userAnswers' = <<>>
         /\ selectedAnswer' = Undefined]_vars

\* C16 witness: a second session has been installed over a first one that
\* never finished, and is fresh
C16_Witness ==
  /\ quizId = 2
  /\ questions # <<>>
  /\ finalPercentage = Undefined
  /\ currentQuestionIndex = 0
  /\ score = 0
  /\ userAnswers = <<>>
  /\ selectedAnswer = Undefined
  /\ submitBtnDisabled
  /\ nextBtnHidden

C18_FailedSaveKeepsResult ==
  [][\A success \in BOOLEAN :
       saveQuizResponse(success) => UNCHANGED <<currentLesson, quizVars, domVars>>]_vars

\* C18 witness: the one report posted, that of the finished session, has
\* failed, and the result is on screen
C18_Witness ==
  /\ Finished
  /\ Len(saved) = 1
  /\ saveReqs = 0
  /\ saveErrors = 1
  /\ ~quizResultHidden
  /\ finalPercentage # Undefined

\* C21: a click on an option changes neither score, userAnswers nor
\* currentQuestionIndex and, when the option exists, stores its index whatever
\* was stored before; a submission that records writes the stored index, its
\* correctness against the question's key, and adds to the score 1 exactly
\* when that index is the key. So only the last click before the submission
\* counts.
C21_LastSelectionCounts ==
  [][/\ \A i \in 0..NumOptions :
          selectOption(i) =>
            /\ UNCHANGED <<score, userAnswers, currentQuestionIndex>>
            /\ (optionFound(i, optionElems) /\ quizId # 0) => selectedAnswer' = i
     /\ (submitQuizAnswer /\ quizId # 0 /\ selectedAnswer # Undefined
           /\ currentQuestionIndex < Len(questions)) =>
          LET key == questions[currentQuestionIndex + 1].correctAnswer
              rec == userAnswers'[currentQuestionIndex + 1]
          IN /\ Len(userAnswers') > currentQuestionIndex
             /\ rec.selected = selectedAnswer
             /\ rec.isCorrect = (selectedAnswer = key)
             /\ score' - score = IF selectedAnswer = key THEN 1 ELSE 0
             /\ currentQuestionIndex' = currentQuestionIndex]_vars

\* C21 witness: the first question was answered after the selection had been
\* changed from the key to the other option; the record is the wrong answer
\* and the score is 0
C21_Witness ==
  /\ reselected
  /\ currentQuestionIndex = 0
  /\ submitBtnDisabled
  /\ ~nextBtnHidden
  /\ Len(userAnswers) = 1
  /\ userAnswers[1].selected = 1
  /\ userAnswers[1].correct = 0
  /\ ~userAnswers[1].isCorrect
  /\ score = 0

\* a response that arrives while the session has a stored selection or an
\* answer record for a question still to be finished leaves the session
SessionInProgressKept ==
  [][\A l \in Lessons, qs \in QuestionSets :
       (/\ startQuizResponse(l, TRUE, qs)
        /\ quizId # 0
        /\ currentQuestionIndex < Len(questions)
        /\ (selectedAnswer # Undefined \/ userAnswers # <<>>)) => quizId' = quizId]_vars

\* C25: at most one /api/quiz/generate request is in flight, and a response
\* that arrives while the session has a stored selection or an answer record
\* does not replace the session.
C25_OneGenerateInFlight ==
  /\ [](Pending(genReqs) <= 1)
  /\ SessionInProgressKept

\* the requests in flight whose senders called showLoading
LoadingRequests == lessonReqs + Pending(genReqs) + analyzeReqs

\* C30: the loading overlay is shown while a lesson generation, a quiz
\* generation or an image analysis is in flight, and hidden when none is.
C30_OverlayWhileLoading ==
  /\ LoadingRequests > 0 => ~loadingHidden
  /\ LoadingRequests = 0 => loadingHidden

\* the second half of C30 on its own
OverlayHiddenWhenIdle == LoadingRequests = 0 => loadingHidden

\* ------------------------------------------------- finishing a long quiz
\* a quiz of n questions, each with NumOptions options and correct answer 0
LongQuiz(n) == [i \in 1..n |-> [n |-> NumOptions, correctAnswer |-> 0]]

\* its answers when the first s questions were answered 0 and the others 1
LongAnswers(n, s) ==
  [i \in 1..n |-> AnswerRecord(IF i <= s THEN 0 ELSE 1, LongQuiz(n)[i])]

\* the state right after the startQuizResponse that installs qs for lesson 1
Installed(qs) ==
  /\ currentLesson = 1
  /\ quizId = 1
  /\ questions = qs
  /\ currentQuestionIndex = 0
  /\ userAnswers = <<>>
  /\ score = 0
  /\ selectedAnswer = Undefined
  /\ quizAvailableHidden = FALSE
  /\ quizQuestionHidden = FALSE
  /\ quizResultHidden = TRUE
  /\ loadingHidden = TRUE
  /\ submitBtnDisabled = TRUE
  /\ nextBtnHidden = TRUE
  /\ optionElems = qs[1].n
  /\ currentQuestionText = 1
  /\ finalPercentage = Undefined
  /\ lessonReqs = 0
  /\ checkReqs = [l \in LessonIds |-> 0]
  /\ genReqs = [l \in LessonIds |-> 0]
  /\ genIssued = 1
  /\ saved = <<>>
  /\ saveReqs = 0
  /\ saveErrors = 0
  /\ now = 0
  /\ quizStartTime = 0
  /\ startedAt = 0
  /\ quizLesson = 1
  /\ reselected = FALSE
  /\ PageAsLoaded

\* the last of n questions has just been submitted, s of the n correctly
InitPct ==
  \E n \in 1..MaxTotal : \E s \in 0..n :
    /\ currentLesson = 1
    /\ quizId = 1
    /\ questions = LongQuiz(n)
    /\ currentQuestionIndex = n - 1
    /\ userAnswers = LongAnswers(n, s)
    /\ score = s
    /\ selectedAnswer = Undefined
    /\ quizAvailableHidden = FALSE
    /\ quizQuestionHidden = FALSE
    /\ quizResultHidden = TRUE
    /\ loadingHidden = TRUE
    /\ submitBtnDisabled = TRUE
    /\ nextBtnHidden = FALSE
    /\ optionElems = NumOptions
    /\ currentQuestionText = n
    /\ finalPercentage = Undefined
    /\ lessonReqs = 0
    /\ checkReqs = [l \in LessonIds |-> 0]
    /\ genReqs = [l \in LessonIds |-> 0]
    /\ genIssued = 1
    /\ saved = <<>>
    /\ saveReqs = 0
    /\ saveErrors = 0
    /\ now = 0
    /\ quizStartTime = 0
    /\ startedAt = 0
    /\ quizLesson = 1
    /\ reselected = FALSE
    /\ PageAsLoaded

\* the click on "Finish Quiz"
SpecPct == InitPct /\ [][nextQuizQuestion]_vars

\* C9: the percentage computed at finish is 100 * score / totalQuestions
\* rounded half-up, for every score in 0..totalQuestions.
C9_PercentageHalfUp ==
  finalPercentage # Undefined => finalPercentage = HalfUp(score, Len(questions))

\* ------------------------------------------------- answering in order
\* the quizzes of SpecScript: every key of up to MaxScriptLen questions with
\* ScriptOptions options, the key [1,0,2,3] over four options, and the quiz of
\* MaxTotal questions
ScriptQuestion == [n : {ScriptOptions}, correctAnswer : 0..(ScriptOptions - 1)]

ExampleQuiz == [i \in 1..4 |-> [n |-> 4, correctAnswer |-> <<1, 0, 2, 3>>[i]]]

ScriptSets ==
  (SeqsUpTo(ScriptQuestion, MaxScriptLen) \ {<<>>}) \cup {ExampleQuiz, LongQuiz(MaxTotal)}

InitScript == \E qs \in ScriptSets : Installed(qs)

\* one selection per question; in the long quiz the answers are those of
\* LongAnswers: option 0, the correct one, while every earlier answer was
\* correct, or option 1
scriptSelect(i) ==
  /\ selectedAnswer = Undefined
  /\ ~Revealed
  /\ ValidOption(i)
  /\ Len(questions) > 4 =>
       /\ i <= 1
       /\ isCorrectOf(i, questions[currentQuestionIndex + 1]) => score = currentQuestionIndex
  /\ selectOption(i)

scriptSubmit == ~Revealed /\ submitQuizAnswer

NextScript ==
  \/ \E i \in 0..3 : scriptSelect(i)
  \/ scriptSubmit
  \/ nextQuizQuestion

SpecScript == InitScript /\ [][NextScript]_vars

\* the records a session answered in order must hold: what was selected, the
\* key, and whether they agree
RecordsFollowKey ==
  /\ Len(userAnswers) = Len(questions)
  /\ \A i \in 1..Len(questions) :
       /\ userAnswers[i].correct = questions[i].correctAnswer
       /\ userAnswers[i].isCorrect = (userAnswers[i].selected = questions[i].correctAnswer)

\* C7: after one select, one submit and one advance per question, in order,
\* userAnswers[i] = {selected: a[i], correct: k[i], isCorrect: a[i] = k[i]},
\* score is the number of i with a[i] = k[i], and percentage is
\* round(100 * score / number of questions).
C7_InOrderResult ==
  /\ [][submitQuizAnswer /\ ~Revealed =>
          /\ Len(userAnswers') = currentQuestionIndex + 1
          /\ userAnswers'[currentQuestionIndex + 1].selected = selectedAnswer]_vars
  /\ [](Finished =>
          /\ RecordsFollowKey
          /\ score = Cardinality({i \in 1..Len(questions) :
                                    userAnswers[i].selected = questions[i].correctAnswer})
          /\ finalPercentage = HalfUp(score, Len(questions)))

\* ------------------------------------------------- calling the functions
\* a call of displayQuestion that also forgets the stored selection
displayQuestionCallClearsSelection ==
  /\ IF quizId = 0
     THEN UNCHANGED <<domVars, selectedAnswer>>
     ELSE /\ displayQuestion(questions, currentQuestionIndex)
          /\ selectedAnswer' = Undefined
          /\ UNCHANGED <<quizAvailableHidden, quizQuestionHidden, quizResultHidden,
                         loadingHidden, finalPercentage>>
  /\ UNCHANGED <<currentLesson, quizId, questions, currentQuestionIndex, userAnswers, score,
                 quizLesson, reselected, netVars, timeVars, pageVars>>

\* displayQuestion(), whoever calls it: it returns at once without a quiz
displayQuestionCall ==
  /\ IF quizId = 0
     THEN UNCHANGED domVars
     ELSE /\ displayQuestion(questions, currentQuestionIndex)
          /\ UNCHANGED <<quizAvailableHidden, quizQuestionHidden, quizResultHidden,
                         loadingHidden, finalPercentage>>
  /\ UNCHANGED <<currentLesson, quizVars, reselected, netVars, timeVars, pageVars>>

\* a quiz answered in order, with submitQuizAnswer and displayQuestion also
\* run at any point of it, whatever the state of the buttons
NextCall ==
  \/ NextScript
  \/ submitQuizAnswerCall
  \/ displayQuestionCall

SpecCall == InitScript /\ [][NextCall]_vars

\* C11: submitQuizAnswer run while no selection is stored (a fresh question,
\* or right after a submission cleared it) adds no answer record and leaves
\* score unchanged.
C11_NoSelectionRejected ==
  [][(selectedAnswer = Undefined /\ submitQuizAnswerCall) => UNCHANGED <<userAnswers, score>>]_vars

\* C11 witness: the second question is shown fresh, the first one submitted,
\* nothing selected; submitQuizAnswer run here leads back to this state
C11_Witness ==
  /\ quizId # 0
  /\ currentQuestionIndex = 1
  /\ Len(questions) > 1
  /\ userAnswers # <<>>
  /\ ~Revealed
  /\ selectedAnswer = Undefined
  /\ submitBtnDisabled

\* C23: a call of displayQuestion leaves currentQuestionIndex, score,
\* userAnswers and the stored selection unchanged, and what it shows is the
\* number and the options of question currentQuestionIndex, so a second call
\* shows the same.
C23_DisplayReadOnly ==
  [][(displayQuestionCall /\ quizId # 0) =>
       /\ UNCHANGED <<currentQuestionIndex, score, userAnswers, selectedAnswer>>
       /\ currentQuestionText' = currentQuestionIndex + 1
       /\ optionElems' = IF currentQuestionIndex < Len(questions)
                         THEN questions[currentQuestionIndex + 1].n
                         ELSE optionElems]_vars

\* C23 witness: displayQuestion ran after the first question was answered:
\* the question is shown as new, its record and the score are still there
C23_Witness ==
  /\ Revealed
  /\ currentQuestionIndex = 0
  /\ nextBtnHidden
  /\ submitBtnDisabled
  /\ currentQuestionText = 1
  /\ Len(userAnswers) = 1
  /\ userAnswers[1].isCorrect
  /\ score = 1

\* ------------------------------------------------- two lessons
\* the quiz every successful /api/quiz/generate response of SpecLesson carries
OneQuestion == <<[n |-> NumOptions, correctAnswer |-> 0]>>

\* the handlers with lessons 1..MaxLessonId and the quiz OneQuestion
NextLesson ==
  \/ generateLesson
  \/ \E l \in LessonIds : generateLessonResponse(l, TRUE)
  \/ checkQuizAvailability
  \/ \E l \in LessonIds, available \in BOOLEAN : checkQuizResponse(l, available)
  \/ retakeQuiz
  \/ \E l \in LessonIds : startQuizResponse(l, TRUE, OneQuestion)
  \/ selectOption(0)
  \/ submitQuizAnswer
  \/ nextQuizQuestion
  \/ \E success \in BOOLEAN : saveQuizResponse(success)

SpecLesson == Init /\ [][NextLesson]_vars

\* C19: when the response to the availability check made for lesson l leads
\* to startQuiz, the /api/quiz/generate request is made for lesson l.
C19_QuizForCheckedLesson ==
  [][\A l \in LessonIds :
       (checkQuizResponse(l, TRUE) /\ genIssued' # genIssued) =>
         genReqs'[l] = genReqs[l] + 1]_vars

\* C24: the report posted when a session finishes carries the lesson_id of
\* the /api/quiz/generate request whose response the session is.
C24_ReportForQuizLesson ==
  [][Len(saved') > Len(saved) => saved'[Len(saved')].lesson_id = quizLesson]_vars

\* C26: when the response to an availability check shows the quiz interface
\* over an existing session, that session was generated for the lesson that
\* is current.
C26_ShownQuizOfCurrentLesson ==
  [][\A l \in LessonIds :
       (checkQuizResponse(l, TRUE) /\ quizId # 0) => quizLesson = currentLesson]_vars

\* ------------------------------------------------- the clock
\* Date.now() advances between two handlers
Tick ==
  /\ now < MaxNow
  /\ now' = now + MsPerTick
  /\ UNCHANGED <<currentLesson, quizVars, domVars, netVars, quizStartTime, startedAt>>
  /\ UNCHANGED <<reselected, pageVars>>

\* one lesson and the quiz OneQuestion, with time passing between the handlers
NextTime ==
  \/ Tick
  \/ generateLesson
  \/ \E l \in Lessons : generateLessonResponse(l, TRUE)
  \/ checkQuizAvailability
  \/ \E l \in Lessons : checkQuizResponse(l, TRUE)
  \/ retakeQuiz
  \/ \E l \in Lessons : startQuizResponse(l, TRUE, OneQuestion)
  \/ selectOption(0)
  \/ submitQuizAnswer
  \/ nextQuizQuestion

SpecTime == Init /\ [][NextTime]_vars

\* C20: the time_taken of a report is the whole number of seconds between
\* the moment its session was installed and the step that finishes it, and
\* is not negative.
C20_DurationOfSession ==
  [][(nextQuizQuestion /\ Len(saved') > Len(saved)) =>
       /\ saved'[Len(saved')].time_taken >= 0
       /\ saved'[Len(saved')].time_taken = (now - startedAt) \div 1000]_vars

\* ------------------------------------------------- image upload
\* everything the image tab leaves alone but the loading overlay
notImage == <<currentLesson, quizVars, reselected, quizAvailableHidden, quizQuestionHidden,
              quizResultHidden, submitBtnDisabled, nextBtnHidden, optionElems,
              currentQuestionText, finalPercentage, netVars, timeVars, speechVars, markVars,
              voiceVars, chatVars, authVars>>

\* file.type.startsWith('image/')
startsWithImage(type) == type \in {"image/png"}

\* handleImageFile passes the file on to a FileReader
accepts(file) == startsWithImage(file.type) /\ ~(file.size > MaxImageBytes)

\* handleImageFile(file): a toast and return, or readAsDataURL
handleImageFile(file) ==
  reading' = IF accepts(file) THEN reading \cup {file} ELSE reading

\* the user picks file in the dialog of imageInput: the browser puts it into
\* imageInput.files and fires change
handleImageSelect(file) ==
  /\ inputFile' = file
  /\ handleImageFile(file)
  /\ UNCHANGED <<previewFile, analyzeReqs, uploaded, noImageToast, loadingHidden, notImage>>

\* the user drops file on uploadArea
dropImage(file) ==
  /\ handleImageFile(file)
  /\ UNCHANGED <<inputFile, previewFile, analyzeReqs, uploaded, noImageToast, loadingHidden,
                 notImage>>

\* reader.onload of the FileReader reading file
readerOnload(file) ==
  /\ file \in reading
  /\ reading' = reading \ {file}
  /\ previewFile' = file
  /\ UNCHANGED <<inputFile, analyzeReqs, uploaded, noImageToast, loadingHidden, notImage>>

\* click on analyzeImageBtn, which is taken to sit in imagePreview
analyzeImage ==
  /\ previewFile # NoFile
  /\ Len(uploaded) < MaxAnalyze
  /\ IF inputFile = NoFile
     THEN /\ noImageToast' = TRUE
          /\ UNCHANGED <<analyzeReqs, uploaded, loadingHidden>>
     ELSE /\ loadingHidden' = FALSE
          /\ uploaded' = Append(uploaded, inputFile)
          /\ analyzeReqs' = analyzeReqs + 1
          /\ UNCHANGED noImageToast
  /\ UNCHANGED <<inputFile, previewFile, reading, notImage>>

\* .then / .catch of analyzeImage
analyzeImageResponse ==
  /\ analyzeReqs > 0
  /\ analyzeReqs' = analyzeReqs - 1
  /\ loadingHidden' = TRUE
  /\ UNCHANGED <<inputFile, previewFile, reading, uploaded, noImageToast, notImage>>

NextImage ==
  \/ \E file \in Files : handleImageSelect(file)
  \/ \E file \in Files : dropImage(file)
  \/ \E file \in Files : readerOnload(file)
  \/ analyzeImage
  \/ analyzeImageResponse

SpecImage == Init /\ [][NextImage]_vars

\* C22: every file posted to /api/image/analyze has an image type and at
\* most 16 MB, as handleImageFile requires of the files it accepts.
C22_OnlyAcceptedUploaded ==
  \A k \in 1..Len(uploaded) : accepts(uploaded[k])

\* C27: a click on analyzeImageBtn under a preview shows no 'Please select
\* an image first' toast and posts the file of the preview, the last one
\* accepted and shown, whether it was picked or dropped.
C27_UploadsPreviewedFile ==
  [][analyzeImage =>
       /\ noImageToast' = noImageToast
       /\ Len(uploaded') = Len(uploaded) + 1
       /\ uploaded'[Len(uploaded')] = previewFile]_vars

\* ------------------------------------------------- reading aloud
\* everything the reading controls leave alone
notSpeech == <<currentLesson, quizVars, reselected, domVars, netVars, timeVars, imageVars,
               markVars, voiceVars, chatVars, authVars>>

\* lessonText.textContent is not empty: displayLesson has filled it
hasLessonText == currentLesson # 0

\* speechSynthesis.cancel(): the utterance is dropped; whether an utterance
\* that had started still gets its end event depends on the browser
\* (delivered says which); the paused flag stays
cancel(delivered) ==
  endPending' = (endPending \/ (speaking /\ ~startPending /\ delivered))

\* startReading(): cancel if speaking, return on an empty text, else make the
\* utterance and speak it
startReadingCall(delivered) ==
  /\ IF speaking THEN cancel(delivered) ELSE UNCHANGED endPending
  /\ IF hasLessonText
     THEN /\ utterance' = TRUE
          /\ speaking' = TRUE
          /\ startPending' = TRUE
     ELSE /\ speaking' = FALSE
          /\ startPending' = FALSE
          /\ UNCHANGED utterance

\* click on readAloudBtn
startReading ==
  /\ ~readBtnHidden
  /\ \E delivered \in BOOLEAN : startReadingCall(delivered)
  /\ stopRequested' = FALSE
  /\ UNCHANGED <<paused, timers, readBtnHidden, notSpeech>>

\* a restart timer of updateReadingSpeed fires: startReading()
restartTimer ==
  /\ timers > 0
  /\ timers' = timers - 1
  /\ \E delivered \in BOOLEAN : startReadingCall(delivered)
  /\ UNCHANGED <<paused, readBtnHidden, stopRequested, notSpeech>>

\* currentUtterance.onstart: the synthesiser begins the utterance
utteranceOnstart ==
  /\ speaking
  /\ startPending
  /\ ~paused
  /\ startPending' = FALSE
  /\ readBtnHidden' = TRUE
  /\ UNCHANGED <<speaking, paused, utterance, endPending, timers, stopRequested, notSpeech>>

\* currentUtterance.onend: the utterance was read to its end
utteranceOnend ==
  /\ speaking
  /\ ~startPending
  /\ ~paused
  /\ speaking' = FALSE
  /\ readBtnHidden' = FALSE
  /\ UNCHANGED <<paused, utterance, startPending, endPending, timers, stopRequested, notSpeech>>

\* onend of an utterance that was cancelled after it had started
cancelledOnend ==
  /\ endPending
  /\ endPending' = FALSE
  /\ readBtnHidden' = FALSE
  /\ UNCHANGED <<speaking, paused, utterance, startPending, timers, stopRequested, notSpeech>>

\* click on stopReadingBtn
stopReading ==
  /\ readBtnHidden
  /\ \E delivered \in BOOLEAN : cancel(delivered)
  /\ speaking' = FALSE
  /\ startPending' = FALSE
  /\ readBtnHidden' = FALSE
  /\ stopRequested' = TRUE
  /\ UNCHANGED <<paused, utterance, timers, notSpeech>>

\* click on pauseReadingBtn
pauseReading ==
  /\ readBtnHidden
  /\ paused' = (speaking /\ ~paused)
  /\ UNCHANGED <<speaking, utterance, startPending, endPending, timers, readBtnHidden,
                 stopRequested, notSpeech>>

\* input on speedSlider
updateReadingSpeed ==
  /\ IF utterance /\ speaking
     THEN /\ timers < MaxTimers
          /\ \E delivered \in BOOLEAN : cancel(delivered)
          /\ speaking' = FALSE
          /\ startPending' = FALSE
          /\ timers' = timers + 1
     ELSE UNCHANGED <<speaking, startPending, endPending, timers>>
  /\ UNCHANGED <<paused, utterance, readBtnHidden, stopRequested, notSpeech>>

NextSpeech ==
  \/ startReading
  \/ restartTimer
  \/ utteranceOnstart
  \/ utteranceOnend
  \/ cancelledOnend
  \/ stopReading
  \/ pauseReading
  \/ updateReadingSpeed

\* ------------------------------------------------- markLessonComplete
\* everything the mark-complete button leaves alone
notMark == <<currentLesson, quizVars, reselected, domVars, netVars, timeVars, imageVars,
             speechVars, voiceVars, chatVars, authVars>>

\* click on markCompleteBtn, which sits in lessonContent and is not disabled
markLessonComplete ==
  /\ currentLesson # 0
  /\ ~markBtnDisabled
  /\ Pending(markReqs) < MaxMarkPending
  /\ markReqs' = [markReqs EXCEPT ![currentLesson] = @ + 1]
  /\ UNCHANGED <<markBtnDisabled, completed, notMark>>

\* .then / .catch of markLessonComplete for the request made for lesson l
markLessonResponse(l, success) ==
  /\ markReqs[l] > 0
  /\ markReqs' = [markReqs EXCEPT ![l] = @ - 1]
  /\ IF success
     THEN /\ markBtnDisabled' = TRUE
          /\ completed' = completed \cup {l}
     ELSE UNCHANGED <<markBtnDisabled, completed>>
  /\ UNCHANGED notMark

\* the lesson tab: lessons are generated, read aloud and marked complete
NextLessonTab ==
  \/ generateLesson
  \/ \E l \in LessonIds, success \in BOOLEAN : generateLessonResponse(l, success)
  \/ NextSpeech
  \/ markLessonComplete
  \/ \E l \in LessonIds, success \in BOOLEAN : markLessonResponse(l, success)

SpecLessonTab == Init /\ [][NextLessonTab]_vars

\* C28: from a click on the stop button until the next click on the read
\* button nothing is spoken.
C28_SilentAfterStop ==
  stopRequested => ~speaking

\* C29: while the current lesson has not been acknowledged as complete, the
\* mark-complete button is enabled.
C29_MarkEnabledForNewLesson ==
  (currentLesson # 0 /\ currentLesson \notin completed) => ~markBtnDisabled

\* ------------------------------------------------- chat
\* everything the chat and the voice input leave alone
notChat == <<currentLesson, quizVars, reselected, domVars, netVars, timeVars, imageVars,
             speechVars, markVars, authVars>>

\* the texts typed into chatInput or recognised from speech
ChatTexts == UNION {[1..n -> {" ", "a"}] : n \in 0..MaxTextLen}

\* String.prototype.trim
RECURSIVE TrimStart(_)
TrimStart(text) ==
  IF text # <<>> /\ Head(text) = " " THEN TrimStart(Tail(text)) ELSE text

RECURSIVE TrimEnd(_)
TrimEnd(text) ==
  IF text # <<>> /\ text[Len(text)] = " " THEN TrimEnd(SubSeq(text, 1, Len(text) - 1)) ELSE text

trim(text) == TrimEnd(TrimStart(text))

\* the children of chatMessages: the message of the user, the typing
\* indicator of request k, and the three texts addChatMessage is given for
\* sender 'ai'
UserMessage(k, message) == [kind |-> "user", of |-> k, text |-> message]
typingDiv(k) == [kind |-> "typing", of |-> k, text |-> <<>>]
AiMessage(k, kind) == [kind |-> kind, of |-> k, text |-> <<>>]
AiKinds == {"response", "sorry", "network error"}

\* chatMessages.contains(node), chatMessages.removeChild(node)
contains(log, node) == \E i \in 1..Len(log) : log[i] = node
removeChild(log, node) == SelectSeq(log, LAMBDA child : child # node)

\* the first typing indicator of the log, or node when there is none
firstTyping(log, node) ==
  IF \E i \in 1..Len(log) : log[i].kind = "typing"
  THEN log[CHOOSE i \in 1..Len(log) :
             /\ log[i].kind = "typing"
             /\ \A j \in 1..(i - 1) : log[j].kind # "typing"]
  ELSE node

\* sendChatMessage(): a toast on an empty message, else the message and a
\* typing indicator are appended and the request is sent
sendChatMessageCall ==
  LET message == trim(chatInput)
      k == chatSent + 1
  IN IF message = <<>>
     THEN UNCHANGED chatVars
     ELSE /\ chatSent < MaxMessages
          /\ chatLog' = chatLog \o <<UserMessage(k, message), typingDiv(k)>>
          /\ chatInput' = <<>>
          /\ chatSent' = k
          /\ chatReqs' = chatReqs \cup {k}

\* the user edits chatInput
typeChat(text) ==
  /\ chatInput' = text
  /\ UNCHANGED <<chatLog, chatSent, chatReqs, voiceVars, notChat>>

\* click on sendChatBtn, or Enter in chatInput
sendChatMessage ==
  /\ sendChatMessageCall
  /\ UNCHANGED <<voiceVars, notChat>>

\* handlers of the response to request k that take the first typing
\* indicator of the list off, not their own
chatResponseRemovesFirstTyping(k, outcome) ==
  /\ k \in chatReqs
  /\ chatReqs' = chatReqs \ {k}
  /\ chatLog' = Append(removeChild(chatLog, firstTyping(chatLog, typingDiv(k))),
                       AiMessage(k, outcome))
  /\ UNCHANGED <<chatInput, chatSent, voiceVars, notChat>>

\* .then / .catch of sendChatMessage for request k: data.success, not
\* data.success, or a rejected fetch or json(); removeChild of a node that is
\* not a child throws, which leads to .catch
chatResponse(k, outcome) ==
  /\ k \in chatReqs
  /\ chatReqs' = chatReqs \ {k}
  /\ chatLog' = IF outcome # "network error" /\ contains(chatLog, typingDiv(k))
                THEN Append(removeChild(chatLog, typingDiv(k)), AiMessage(k, outcome))
                ELSE Append(removeChild(chatLog, typingDiv(k)), AiMessage(k, "network error"))
  /\ UNCHANGED <<chatInput, chatSent, voiceVars, notChat>>

\* the chat typed by hand
NextChat ==
  \/ \E text \in ChatTexts : typeChat(text)
  \/ sendChatMessage
  \/ \E k \in 1..MaxMessages, outcome \in AiKinds : chatResponse(k, outcome)

\* every request that is in flight completes or fails at some time
ChatCompletes == \A k \in 1..MaxMessages : WF_vars(\E outcome \in AiKinds : chatResponse(k, outcome))

SpecChat == Init /\ [][NextChat]_vars /\ ChatCompletes

\* the children of chatMessages that answer request k
AiMessagesOf(k) == {i \in 1..Len(chatLog) : chatLog[i].of = k /\ chatLog[i].kind \in AiKinds}

\* request k is over, its typing indicator is gone and one AI message stands
\* for it
Answered(k) ==
  /\ k \notin chatReqs
  /\ ~contains(chatLog, typingDiv(k))
  /\ Cardinality(AiMessagesOf(k)) = 1

\* C32: a message whose request is in flight has no AI message yet; once the
\* request has completed or failed its typing indicator is gone and exactly
\* one AI message stands for it, for good; and every request that completes
\* gets there, in whatever order the responses arrive.
C32_OneAnswerEach ==
  /\ [](\A k \in 1..chatSent :
          IF k \in chatReqs THEN AiMessagesOf(k) = {} ELSE Answered(k))
  /\ \A k \in 1..MaxMessages : (k \in chatReqs) ~> Answered(k)

\* C32 witness: two messages were sent before the first answer; the second
\* was answered first, the first failed; no typing indicator is left
C32_Witness ==
  /\ chatSent = 2
  /\ chatReqs = {}
  /\ Len(chatLog) = 4
  /\ chatLog[1].kind = "user" /\ chatLog[1].of = 1
  /\ chatLog[2].kind = "user" /\ chatLog[2].of = 2
  /\ chatLog[3] = AiMessage(2, "response")
  /\ chatLog[4] = AiMessage(1, "network error")

\* ------------------------------------------------- voice input
\* click on voiceInputBtn: stop() while isListening, else start(), which
\* throws InvalidStateError on a recogniser that was started and has not ended
toggleVoiceInput ==
  /\ IF isListening
     THEN /\ recState' = IF recState = "listening" THEN "stopping" ELSE recState
          /\ UNCHANGED invalidStart
     ELSE IF recState = "idle"
          THEN /\ recState' = "starting"
               /\ UNCHANGED invalidStart
          ELSE /\ invalidStart' = TRUE
               /\ UNCHANGED recState
  /\ UNCHANGED <<isListening, sendTimers, chatVars, notChat>>

\* speechRecognition.onstart
recognitionOnstart ==
  /\ recState = "starting"
  /\ recState' = "listening"
  /\ isListening' = TRUE
  /\ UNCHANGED <<invalidStart, sendTimers, chatVars, notChat>>

\* speechRecognition.onresult with the transcript; the recogniser ends after
\* its one result
recognitionOnresult(transcript) ==
  /\ recState \in {"listening", "stopping"}
  /\ sendTimers < MaxSendTimers
  /\ recState' = "ending"
  /\ chatInput' = transcript
  /\ isListening' = FALSE
  /\ sendTimers' = sendTimers + 1
  /\ UNCHANGED <<invalidStart, chatLog, chatSent, chatReqs, notChat>>

\* speechRecognition.onerror; the end event follows
recognitionOnerror ==
  /\ recState \in {"starting", "listening", "stopping"}
  /\ recState' = "ending"
  /\ isListening' = FALSE
  /\ UNCHANGED <<invalidStart, sendTimers, chatVars, notChat>>

\* speechRecognition.onend
recognitionOnend ==
  /\ recState \in {"listening", "stopping", "ending"}
  /\ recState' = "idle"
  /\ isListening' = FALSE
  /\ UNCHANGED <<invalidStart, sendTimers, chatVars, notChat>>

\* the timer of onresult fires: sendChatMessage()
sendTimer ==
  /\ sendTimers > 0
  /\ sendTimers' = sendTimers - 1
  /\ sendChatMessageCall
  /\ UNCHANGED <<isListening, recState, invalidStart, notChat>>

\* the chat with its voice input
NextVoice ==
  \/ NextChat
  \/ toggleVoiceInput
  \/ recognitionOnstart
  \/ \E transcript \in ChatTexts : recognitionOnresult(transcript)
  \/ recognitionOnerror
  \/ recognitionOnend
  \/ sendTimer

SpecVoice == Init /\ [][NextVoice]_vars

\* C31: toggleVoiceInput never calls start() on a recogniser that was
\* started and has not ended.
C31_NoStartWhileStarted ==
  ~invalidStart

\* ------------------------------------------------- authentication page
\* everything the authentication page leaves alone
notAuth == <<currentLesson, quizVars, reselected, domVars, netVars, timeVars, imageVars,
             speechVars, markVars, voiceVars, chatVars>>

\* what can be typed into the name field
Names == UNION {[1..n -> {" ", "a"}] : n \in 0..MaxNameLen}

\* what can be typed into an email field: a@a.a, a@a..a, a.a@a.a, and
\* addresses without a local part, a dot, a domain or a top-level part, with
\* two @, with a blank, and the empty one
Emails ==
  { <<"a", "@", "a", ".", "a">>,
    <<"a", "@", "a", ".", ".", "a">>,
    <<"a", ".", "a", "@", "a", ".", "a">>,
    <<"@", "a", ".", "a">>,
    <<"a", "@", "a">>,
    <<"a", "@", ".", "a">>,
    <<"a", "@", "a", ".">>,
    <<"a", "@", "@", "a", ".", "a">>,
    <<"a", " ", "@", "a", ".", "a">>,
    <<"a", ".", "a">>,
    <<>> }

\* what can be typed into a password field: 5 or 6 characters
Passwords ==
  { <<"p", "p", "p", "p", "p">>,
    <<"p", "p", "p", "p", "p", "p">>,
    <<"p", "p", "p", "p", "p", "q">> }

\* /^[^\s@]+@[^\s@]+\.[^\s@]+$/.test(email)
validateEmail(email) ==
  \E at \in 1..Len(email), dot \in 1..Len(email) :
    /\ email[at] = "@"
    /\ email[dot] = "."
    /\ 1 < at
    /\ at + 1 < dot
    /\ dot < Len(email)
    /\ \A i \in 1..Len(email) : i # at => email[i] \notin {" ", "@"}

\* the checks of handleSignup without the one of the terms
signupChecksPassWithoutTerms(form) ==
  LET name == trim(form.name)
  IN /\ ~(name = <<>> \/ Len(name) < 2)
     /\ validateEmail(form.email)
     /\ ~(Len(form.password) < 6)
     /\ ~(form.password # form.confirmPassword)

\* the checks of handleSignup, in its order; each failure is a toast and a
\* return
signupChecksPass(form) ==
  LET name == trim(form.name)
  IN /\ ~(name = <<>> \/ Len(name) < 2)
     /\ validateEmail(form.email)
     /\ ~(Len(form.password) < 6)
     /\ ~(form.password # form.confirmPassword)
     /\ form.agreeTerms

\* the user types into a field of the signup form
typeSignupName(name) ==
  /\ signupForm' = [signupForm EXCEPT !.name = name]
  /\ UNCHANGED <<authLoadingHidden, signupReqs, signupSent, otherAuthReqs, notAuth>>

typeSignupEmail(email) ==
  /\ signupForm' = [signupForm EXCEPT !.email = email]
  /\ UNCHANGED <<authLoadingHidden, signupReqs, signupSent, otherAuthReqs, notAuth>>

typeSignupPassword(password) ==
  /\ signupForm' = [signupForm EXCEPT !.password = password]
  /\ UNCHANGED <<authLoadingHidden, signupReqs, signupSent, otherAuthReqs, notAuth>>

typeConfirmPassword(password) ==
  /\ signupForm' = [signupForm EXCEPT !.confirmPassword = password]
  /\ UNCHANGED <<authLoadingHidden, signupReqs, signupSent, otherAuthReqs, notAuth>>

\* click on the agreeTerms checkbox
toggleAgreeTerms ==
  /\ signupForm' = [signupForm EXCEPT !.agreeTerms = ~@]
  /\ UNCHANGED <<authLoadingHidden, signupReqs, signupSent, otherAuthReqs, notAuth>>

\* submit of signupForm, up to the fetch
handleSignup ==
  /\ IF signupChecksPass(signupForm)
     THEN /\ signupReqs + otherAuthReqs < MaxAuthPending
          /\ signupSent < MaxSignups
          /\ authLoadingHidden' = FALSE
          /\ signupReqs' = signupReqs + 1
          /\ signupSent' = signupSent + 1
     ELSE UNCHANGED <<authLoadingHidden, signupReqs, signupSent>>
  /\ UNCHANGED <<signupForm, otherAuthReqs, notAuth>>

\* handleSignup after the fetch: whatever the response, finally hides the
\* overlay
signupResponse ==
  /\ signupReqs > 0
  /\ signupReqs' = signupReqs - 1
  /\ authLoadingHidden' = TRUE
  /\ UNCHANGED <<signupForm, signupSent, otherAuthReqs, notAuth>>

\* submit of loginForm with email, up to the fetch
handleLogin(email) ==
  /\ IF validateEmail(email)
     THEN /\ signupReqs + otherAuthReqs < MaxAuthPending
          /\ authLoadingHidden' = FALSE
          /\ otherAuthReqs' = otherAuthReqs + 1
     ELSE UNCHANGED <<authLoadingHidden, otherAuthReqs>>
  /\ UNCHANGED <<signupForm, signupReqs, signupSent, notAuth>>

\* continueAsGuest up to the fetch
continueAsGuest ==
  /\ signupReqs + otherAuthReqs < MaxAuthPending
  /\ authLoadingHidden' = FALSE
  /\ otherAuthReqs' = otherAuthReqs + 1
  /\ UNCHANGED <<signupForm, signupReqs, signupSent, notAuth>>

\* handleLogin or continueAsGuest after the fetch
otherAuthResponse ==
  /\ otherAuthReqs > 0
  /\ otherAuthReqs' = otherAuthReqs - 1
  /\ authLoadingHidden' = TRUE
  /\ UNCHANGED <<signupForm, signupReqs, signupSent, notAuth>>

NextAuth ==
  \/ \E name \in Names : typeSignupName(name)
  \/ \E email \in Emails : typeSignupEmail(email)
  \/ \E password \in Passwords : typeSignupPassword(password)
  \/ \E password \in Passwords : typeConfirmPassword(password)
  \/ toggleAgreeTerms
  \/ handleSignup
  \/ signupResponse
  \/ \E email \in Emails : handleLogin(email)
  \/ continueAsGuest
  \/ otherAuthResponse

SpecAuth == Init /\ [][NextAuth]_vars

\* what the form must hold for a signup request: a name of at least 2
\* characters after trimming, an email of the form x@y.z without blanks or a
\* second @, a password of at least 6 characters that equals its confirmation,
\* and the terms agreed
FormValid(form) ==
  /\ Len(trim(form.name)) >= 2
  /\ validateEmail(form.email)
  /\ Len(form.password) >= 6
  /\ form.password = form.confirmPassword
  /\ form.agreeTerms

\* C33: a step sends a signup request only from a form that passes all
\* checks, and then shows the overlay; a submission of a form that fails a
\* check changes neither the requests nor the overlay; the step in which a
\* signup request completes or fails leaves the overlay hidden.
C33_SignupValidated ==
  [][/\ (signupReqs' > signupReqs \/ signupSent' # signupSent) =>
          /\ FormValid(signupForm)
          /\ signupReqs' = signupReqs + 1
          /\ signupSent' = signupSent + 1
          /\ ~authLoadingHidden'
     /\ (handleSignup /\ ~FormValid(signupForm)) =>
          UNCHANGED <<signupReqs, signupSent, authLoadingHidden>>
     /\ signupReqs' < signupReqs => authLoadingHidden']_vars

\* C33 witness: one signup request was sent, from a form whose name needed
\* trimming, and has completed; the overlay is hidden
C33_Witness ==
  /\ signupSent = 1
  /\ signupReqs = 0
  /\ otherAuthReqs = 0
  /\ authLoadingHidden
  /\ FormValid(signupForm)
  /\ signupForm.name # trim(signupForm.name)
====
